---- MODULE Spec2Model ----
(***************************************************************************)
(* CineCart: the admin dashboard (src/src/pages/AdminDashboard.tsx) and    *)
(* the customer's order list (src/unnamed/part_000) against the managed    *)
(* store they talk to.                                                     *)
(*                                                                         *)
(* One set of variables, several specifications, each following one part   *)
(* of the program and leaving the rest unchanged:                          *)
(*   Spec        the orders table of AdminDashboard: fetchData, the        *)
(*               realtime channel and updateStatus, for several sessions;  *)
(*   SpecShows   the AddMovieForm component: handleAddShow and the seat    *)
(*               grid it generates, handleDeleteShow;                      *)
(*   SpecSync    the pages mounting and unmounting, authentication, the    *)
(*               booking of orders, the dashboard and MyOrders side by     *)
(*               side;                                                     *)
(*   SpecLive    SpecSync's propagation under fair scheduling of the       *)
(*               responses and channel callbacks;                          *)
(*   SpecCommit  Spec with the commit order of the updates recorded;       *)
(*   SpecViews   the lists derived from the fetched orders: show filter,   *)
(*               Active / History, revenue;                                *)
(*   SpecForms   the tabs of the dashboard and its three forms;            *)
(*   SpecHistory a booked order in MyOrders while its show is deleted;     *)
(*   SpecConverge one dashboard's orders table under fair delivery of the  *)
(*               responses and realtime events;                            *)
(*   SpecTicket  MyOrders with its ticket modal while an admin moves the   *)
(*               order on.                                                 *)
(***************************************************************************)
EXTENDS Integers, Sequences, FiniteSets, TLC

VARIABLES
    dbOrders,     \* store: table orders, id -> row
    orders,       \* AdminDashboard state `orders`, per session
    loading,      \* AdminDashboard state `loading`, per session
    ordersView,   \* AdminDashboard state `ordersView`, per session
    fetches,      \* fetchData calls awaiting their response, per session
    pending,      \* updateStatus calls awaiting line 401, per session
    notif,        \* realtime events queued on the session's channel
    toast,        \* last sonner toast shown in the session
    dbShows,      \* store: table shows (rows in insertion order)
    dbSeats,      \* store: table seats (rows in insertion order)
    showForm,     \* AddMovieForm state `showForm`
    savingShow,   \* AddMovieForm state `savingShow`
    shows,        \* AddMovieForm state `shows`
    showFetches,  \* fetchShows calls awaiting their response
    addShow,      \* position of handleAddShow (which await it is suspended at)
    showSeq,      \* store: ids handed out by table shows so far
    mounted,      \* per view: the page component is mounted
    chans,        \* per view: realtime channels the view has open
    auth,         \* per view: what useAuth() returns in its browser session
    myOrders,     \* MyOrders state `orders`
    myLoading,    \* MyOrders state `loading`
    myFetches,    \* fetchOrders calls awaiting their response
    myNotif,      \* realtime events queued on the MyOrders channel
    hist,         \* history: the commit order of the updates of each order
    filterShow,   \* AdminDashboard state `filterShow`, per session
    tab,          \* MyOrders state `tab`
    dbMovies,     \* store: table movies (rows in insertion order)
    movieForm,    \* AddMovieForm state `movieForm`
    savingMovie,  \* AddMovieForm state `savingMovie`
    movies,       \* AddMovieForm state `movies`
    movieFetches, \* fetchMovies calls awaiting their response
    addMovie,     \* position of handleAddMovie
    dbSnacks,     \* store: table snacks (rows in insertion order)
    form,         \* AddSnackForm state `form`
    saving,       \* AddSnackForm state `saving`
    snacks,       \* AddSnackForm state `snacks`
    snackFetches, \* fetchSnacks calls awaiting their response
    addSnack,     \* position of AddSnackForm's handleSubmit
    activeTab,    \* AdminDashboard state `activeTab`, per session
    dbOrderSeats, \* store: table order_seats (rows in insertion order)
    dbOrderItems, \* store: table order_items (rows in insertion order)
    qrOrder       \* MyOrders state `qrOrder` (the ticket in the modal)

orderVars == <<dbOrders, orders, loading, ordersView, fetches, pending, notif>>
showVars  == <<dbShows, dbSeats, showForm, savingShow, shows, showFetches, addShow, showSeq>>
pageVars  == <<mounted, chans, auth>>
myVars    == <<myOrders, myLoading, myFetches, myNotif>>
vars      == <<dbOrders, orders, loading, ordersView, fetches, pending, notif, toast,
               dbShows, dbSeats, showForm, savingShow, shows, showFetches, addShow,
               showSeq, mounted, chans, auth, myOrders, myLoading, myFetches, myNotif,
               hist, filterShow, tab, dbMovies, movieForm, savingMovie, movies,
               movieFetches, addMovie, dbSnacks, form, saving, snacks, snackFetches,
               addSnack, activeTab, dbOrderSeats, dbOrderItems, qrOrder>>
movieVars == <<dbMovies, movieForm, savingMovie, movies, movieFetches, addMovie>>
snackVars == <<dbSnacks, form, saving, snacks, snackFetches, addSnack>>
viewVars  == <<filterShow, tab, activeTab>>
joinVars  == <<dbOrderSeats, dbOrderItems>>

----------------------------------------------------------------------------
(* Bounds of the model *)

NumOrders  == 1      \* orders in the store
MaxPending == 1      \* updateStatus calls one session has in flight
MaxFetch   == 1      \* fetchData calls one session has in flight
MaxNotif   == 1      \* realtime events queued per channel
MaxShows   == 1      \* shows the store ever creates
MaxShowFetch == 1    \* fetchShows calls in flight

MaxMyFetch == 2      \* fetchOrders calls the MyOrders view has in flight
MaxCommits == 3      \* updates of one order the store commits (SpecCommit)
ViewOrders == 2      \* orders in the store (SpecViews)
MaxMovies  == 1      \* movies the store ever creates
MaxSnacks  == 1      \* snacks the store ever creates
MaxListFetch == 1    \* fetchMovies / fetchSnacks calls in flight

Admins   == {"a1", "a2"}
OrderIds == 1..NumOrders

MyView == "my"                       \* the browser session showing MyOrders
Views  == Admins \cup {MyView}
Users  == {"u1", "u2"}               \* customer accounts
NoUser == "none"                     \* useAuth().user === null

----------------------------------------------------------------------------
(* Orders: data *)

Statuses == {"Confirmed", "Preparing", "Ready", "Collected"}

\* updateStatus takes any string; these are the strings it is tried with.
StatusArgs == Statuses \cup {"Prepairing", "Cancelled"}

\* The ordering Confirmed < Preparing < Ready < Collected of the workflow.
Rank(s) ==
    CASE s = "Confirmed" -> 0
      [] s = "Preparing" -> 1
      [] s = "Ready"     -> 2
      [] s = "Collected" -> 3
      [] OTHER           -> -1

NoToast == [kind |-> "none", msg |-> ""]

\* The customer an order is booked by.
OwnerOf(id) == IF id % 2 = 1 THEN "u1" ELSE "u2"

\* The id the store gives its n-th show.
ShowKey(n) == "s" \o ToString(n)

ShowKeys == {ShowKey(n) : n \in 1..MaxShows}

\* An order row as the booking flow creates it: status Confirmed.
NewOrder(id) ==
    [id |-> id, status |-> "Confirmed", show_id |-> ShowKey(1), user_id |-> OwnerOf(id),
     total_amount |-> 500, created_at |-> id]

\* The rows ordered by created_at ascending.
OrderByCreatedDesc_Ascending(db) ==
    LET n == Cardinality(DOMAIN db)
    IN  CHOOSE q \in [1..n -> DOMAIN db] :
            /\ \A i, j \in 1..n : i # j => q[i] # q[j]
            /\ \A i, j \in 1..n : i < j => db[q[i]].created_at <= db[q[j]].created_at

\* .order("created_at", { ascending: false }) over the rows of the table.
OrderByCreatedDesc(db) ==
    LET n == Cardinality(DOMAIN db)
    IN  CHOOSE q \in [1..n -> DOMAIN db] :
            /\ \A i, j \in 1..n : i # j => q[i] # q[j]
            /\ \A i, j \in 1..n : i < j => db[q[i]].created_at >= db[q[j]].created_at

\* supabase.from("orders").select(...).order("created_at", desc): the rows.
QueryOrders(db) ==
    LET q == OrderByCreatedDesc(db)
    IN  [i \in DOMAIN q |-> db[q[i]]]

\* supabase.from("orders").update({ status }).eq("id", orderId), applied.
StoreUpdate(db, orderId, status) ==
    [id \in DOMAIN db |->
        IF id = orderId THEN [db[id] EXCEPT !.status = status] ELSE db[id]]

\* The map with its test inverted (o.id !== orderId).
MapStatus_Inverted(prev, orderId, status) ==
    [i \in DOMAIN prev |->
        IF prev[i].id # orderId THEN [prev[i] EXCEPT !.status = status] ELSE prev[i]]

\* prev.map((o) => (o.id === orderId ? { ...o, status } : o))
MapStatus(prev, orderId, status) ==
    [i \in DOMAIN prev |->
        IF prev[i].id = orderId THEN [prev[i] EXCEPT !.status = status] ELSE prev[i]]

\* filterShow === "all" ? orders : orders.filter((o) => o.show_id === filterShow)
byShow(a) ==
    IF filterShow[a] = "all"
    THEN orders[a]
    ELSE SelectSeq(orders[a], LAMBDA o : o.show_id = filterShow[a])

activeOrders(a) ==
    LET keep(o) == o.status # "Collected" IN SelectSeq(byShow(a), keep)

historyOrders(a) ==
    LET keep(o) == o.status = "Collected" IN SelectSeq(byShow(a), keep)

filtered(a) == IF ordersView[a] = "active" THEN activeOrders(a) ELSE historyOrders(a)

\* Number(v) of a JSON number (what the store returns for total_amount).
Number(v) == v

\* list.reduce((s, o) => s + Number(o.total_amount), s)
RECURSIVE reduceAmount(_, _)
reduceAmount(list, s) ==
    IF list = <<>> THEN s
    ELSE reduceAmount(Tail(list), s + Number(Head(list).total_amount))

\* The total taken over the rows on screen (filtered) instead.
totalRevenue_Filtered(a) == reduceAmount(filtered(a), 0)

\* activeOrders.reduce((s, o) => s + Number(o.total_amount), 0)
totalRevenue(a) == reduceAmount(activeOrders(a), 0)

\* The buttons with the first one's argument misspelt.
ButtonStatuses_Typo(order) ==
    {"Prepairing", "Ready"} \cup (IF order.status = "Ready" THEN {"Collected"} ELSE {})

\* The status buttons rendered in a row of the table.
ButtonStatuses(order) ==
    {"Preparing", "Ready"} \cup (IF order.status = "Ready" THEN {"Collected"} ELSE {})

\* The first effect's test: navigate("/") is due.
RedirectDue(a) == mounted[a] /\ ~auth[a].loading /\ ~auth[a].isAdmin

\* The rows that carry action buttons: the table body, active view only,
\* behind the loading gate (authLoading || loading). The redirect effect
\* runs before any click is handled.
ActionRows(a) ==
    IF mounted[a] /\ ~auth[a].loading /\ ~RedirectDue(a)
       /\ ~loading[a] /\ activeTab[a] = "orders" /\ ordersView[a] = "active"
    THEN {filtered(a)[i] : i \in DOMAIN filtered(a)}
    ELSE {}

RemoveAt(s, i) == SubSeq(s, 1, i - 1) \o SubSeq(s, i + 1, Len(s))

\* The response merged into the list instead of replacing it.
setOrders_Merge(prev, data) == prev \o data

\* setOrders(data): the list becomes the query's result.
setOrders(prev, data) == data

----------------------------------------------------------------------------
(* Orders: actions *)

\* A committed change of table orders reaches every open channel of the
\* dashboards (event "*").
Publish == notif' = [a \in Admins |-> notif[a] + chans[a]]

\* updateStatus up to its await, the store applying the update.
UpdateStatusOk(a, orderId, status) ==
    /\ Len(pending[a]) < MaxPending
    /\ \E o \in ActionRows(a) : o.id = orderId /\ status \in ButtonStatuses(o)
    /\ \A b \in Admins : notif[b] + chans[b] <= MaxNotif
    /\ dbOrders' = StoreUpdate(dbOrders, orderId, status)
    /\ Publish
    /\ pending' = [pending EXCEPT ![a] = Append(@,
            [orderId |-> orderId, status |-> status, result |-> "ok",
             same |-> (dbOrders[orderId].status = status)])]
    /\ UNCHANGED <<orders, loading, ordersView, fetches, toast, showVars>>

\* updateStatus up to its await, the store failing the update.
UpdateStatusFail(a, orderId, status) ==
    /\ Len(pending[a]) < MaxPending
    /\ \E o \in ActionRows(a) : o.id = orderId /\ status \in ButtonStatuses(o)
    /\ pending' = [pending EXCEPT ![a] = Append(@,
            [orderId |-> orderId, status |-> status, result |-> "error",
             same |-> (dbOrders[orderId].status = status)])]
    /\ UNCHANGED <<dbOrders, notif, orders, loading, ordersView, fetches, toast, showVars>>

\* updateStatus after its await: the result is dropped, setOrders runs.
UpdateStatusReturn(a, i) ==
    /\ i \in DOMAIN pending[a]
    /\ orders' = [orders EXCEPT
            ![a] = MapStatus(@, pending[a][i].orderId, pending[a][i].status)]
    /\ pending' = [pending EXCEPT ![a] = RemoveAt(@, i)]
    /\ UNCHANGED <<dbOrders, notif, loading, ordersView, fetches, toast, showVars>>

\* The channel callback: () => fetchData(); the query reads the table.
Notify(a) ==
    /\ notif[a] > 0
    /\ Len(fetches[a]) < MaxFetch
    /\ notif' = [notif EXCEPT ![a] = @ - 1]
    /\ fetches' = [fetches EXCEPT ![a] = Append(@, QueryOrders(dbOrders))]
    /\ UNCHANGED <<dbOrders, orders, loading, ordersView, pending, toast, showVars>>

\* fetchData after its await, ordersRes.data present.
FetchReturn(a, i) ==
    /\ i \in DOMAIN fetches[a]
    /\ orders' = [orders EXCEPT ![a] = setOrders(@, fetches[a][i])]
    /\ loading' = [loading EXCEPT ![a] = FALSE]
    /\ fetches' = [fetches EXCEPT ![a] = RemoveAt(@, i)]
    /\ UNCHANGED <<dbOrders, notif, ordersView, pending, toast, showVars>>

\* fetchData after its await, the query failed: ordersRes.data is null.
FetchError(a, i) ==
    /\ i \in DOMAIN fetches[a]
    /\ loading' = [loading EXCEPT ![a] = FALSE]
    /\ fetches' = [fetches EXCEPT ![a] = RemoveAt(@, i)]
    /\ UNCHANGED <<dbOrders, notif, orders, ordersView, pending, toast, showVars>>

\* The Active / History toggle.
SetOrdersView(a, v) ==
    /\ ~loading[a]
    /\ ordersView[a] # v
    /\ ordersView' = [ordersView EXCEPT ![a] = v]
    /\ UNCHANGED <<dbOrders, notif, orders, loading, fetches, pending, toast, showVars>>

----------------------------------------------------------------------------
(* Shows and seats: data *)

FormSession == "a1"      \* the session whose AddMovieForm is modelled

emptyShow == [movie_id |-> "", screen |-> "", show_time |-> ""]

\* What the form's controls can hold: "" or a choice / a datetime-local value.
MovieChoices  == {"", "m1"}
ScreenChoices == {"", "Screen 1"}
TimeChoices   == {"", "2026-01-02T10:00", "2026-01-01T10:00"}

\* new Date(v).toISOString() of a datetime-local value (browser zone UTC).
toISOString(v) == v \o ":00.000Z"

\* The instant an ISO timestamp denotes, as the store compares show_time.
Instant(iso) ==
    CASE iso = "2026-01-01T10:00:00.000Z" -> 1
      [] iso = "2026-01-02T10:00:00.000Z" -> 2
      [] OTHER -> 0

StoreErrors == {"insert failed"}
NoError == ""

ErrorToast(msg)   == [kind |-> "error", msg |-> msg]
SuccessToast(msg) == [kind |-> "success", msg |-> msg]

ROWS == <<"A", "B", "C", "D", "E", "F", "G", "H">>
COLS == 8

\* The grid with the column index used as it comes (i, not i + 1).
seatRows_ZeroBased(showData) ==
    [k \in 1..(Len(ROWS) * COLS) |->
        LET row == ROWS[((k - 1) \div COLS) + 1]
            i   == (k - 1) % COLS
        IN  [show_id |-> showData.id,
             seat_number |-> row \o ToString(i),
             is_booked |-> FALSE]]

\* ROWS.flatMap((row) => Array.from({ length: COLS }, (_, i) => ({...})))
seatRows(showData) ==
    [k \in 1..(Len(ROWS) * COLS) |->
        LET row == ROWS[((k - 1) \div COLS) + 1]
            i   == (k - 1) % COLS
        IN  [show_id |-> showData.id,
             seat_number |-> row \o ToString(i + 1),
             is_booked |-> FALSE]]

ShowIds(db) == {db[i].id : i \in DOMAIN db}

\* The rows of table seats that belong to a show.
SeatsOf(seats, sid) == {i \in DOMAIN seats : seats[i].show_id = sid}

\* .order("show_time", { ascending: true }): every order the store may
\* return the rows in (rows with equal show_time come in either order).
QueryShows(db) ==
    {[i \in DOMAIN db |-> db[q[i]]] :
        q \in {p \in [DOMAIN db -> DOMAIN db] :
                 /\ \A i, j \in DOMAIN db : i # j => p[i] # p[j]
                 /\ \A i, j \in DOMAIN db :
                       i < j => Instant(db[p[i]].show_time) <= Instant(db[p[j]].show_time)}}

\* fetchShows up to its await: the query reads the table.
FetchShowsCall ==
    /\ Len(showFetches) < MaxShowFetch
    /\ \E data \in QueryShows(dbShows') : showFetches' = Append(showFetches, data)

SetToast(t) == toast' = [toast EXCEPT ![FormSession] = t]

----------------------------------------------------------------------------
(* Shows and seats: actions *)

\* setS(k, v): a control of the show form changes.
SetS(k, v) ==
    /\ showForm[k] # v
    /\ showForm' = [showForm EXCEPT ![k] = v]
    /\ UNCHANGED <<dbShows, dbSeats, savingShow, shows, showFetches, addShow, showSeq,
                   toast, orderVars>>

\* handleAddShow, a required field missing: the early return.
AddShowInvalid ==
    /\ ~savingShow
    /\ showForm.movie_id = "" \/ showForm.screen = "" \/ showForm.show_time = ""
    /\ SetToast(ErrorToast("Movie, screen, and show time are required"))
    /\ UNCHANGED <<showVars, orderVars>>

\* handleAddShow up to its first await: the show insert is sent.
AddShowSubmit ==
    /\ ~savingShow
    /\ ~(showForm.movie_id = "" \/ showForm.screen = "" \/ showForm.show_time = "")
    /\ savingShow' = TRUE
    /\ addShow' = [pc |-> "await_show",
                   row |-> [movie_id |-> showForm.movie_id,
                            screen |-> showForm.screen,
                            show_time |-> toISOString(showForm.show_time)]]
    /\ UNCHANGED <<dbShows, dbSeats, showForm, shows, showFetches, showSeq, toast, orderVars>>

\* The show insert succeeds; handleAddShow runs on to its second await.
ShowInsertOk ==
    /\ addShow.pc = "await_show"
    /\ showSeq < MaxShows
    /\ LET showData == [id |-> ShowKey(showSeq + 1),
                        movie_id |-> addShow.row.movie_id,
                        screen |-> addShow.row.screen,
                        show_time |-> addShow.row.show_time]
       IN  /\ dbShows' = Append(dbShows, showData)
           /\ addShow' = [pc |-> "await_seats", show_id |-> showData.id,
                          rows |-> seatRows(showData)]
    /\ showSeq' = showSeq + 1
    /\ UNCHANGED <<dbSeats, showForm, savingShow, shows, showFetches, toast, orderVars>>

\* The show insert fails: error || !showData.
ShowInsertFail ==
    /\ addShow.pc = "await_show"
    /\ \E msg \in StoreErrors \cup {NoError} :
          SetToast(ErrorToast(IF msg # NoError THEN msg ELSE "Failed to create show"))
    /\ savingShow' = FALSE
    /\ addShow' = [pc |-> "idle"]
    /\ UNCHANGED <<dbShows, dbSeats, showForm, shows, showFetches, showSeq, orderVars>>

\* The continuation with the `return` after the seat error missing.
AfterSeatInsert_NoReturn(seatError) ==
    /\ savingShow' = FALSE
    /\ addShow' = [pc |-> "idle"]
    /\ SetToast(SuccessToast("Show scheduled with 64 seats!"))
    /\ showForm' = emptyShow
    /\ FetchShowsCall

\* handleAddShow after the seat insert's await.
AfterSeatInsert(seatError) ==
    /\ savingShow' = FALSE
    /\ addShow' = [pc |-> "idle"]
    /\ IF seatError # NoError
       THEN /\ SetToast(ErrorToast("Show created but seats failed: " \o seatError))
            /\ UNCHANGED <<showForm, showFetches>>
       ELSE /\ SetToast(SuccessToast("Show scheduled with 64 seats!"))
            /\ showForm' = emptyShow
            /\ FetchShowsCall

\* The seat insert succeeds: one statement adds every row.
SeatInsertOk ==
    /\ addShow.pc = "await_seats"
    /\ addShow.show_id \in ShowIds(dbShows)
    /\ dbSeats' = dbSeats \o addShow.rows
    /\ UNCHANGED <<dbShows, showSeq, shows, orderVars>>
    /\ AfterSeatInsert(NoError)

\* The seat insert fails: no row is added.
SeatInsertFail ==
    /\ addShow.pc = "await_seats"
    /\ UNCHANGED <<dbShows, dbSeats, showSeq, shows, orderVars>>
    /\ \E msg \in StoreErrors : AfterSeatInsert(msg)

\* fetchShows after its await: if (data) setShows(data).
ShowsFetchReturn(i) ==
    /\ i \in DOMAIN showFetches
    /\ shows' = showFetches[i]
    /\ showFetches' = RemoveAt(showFetches, i)
    /\ UNCHANGED <<dbShows, dbSeats, showForm, savingShow, addShow, showSeq, toast, orderVars>>

\* fetchShows after its await, the query failed: data is null.
ShowsFetchError(i) ==
    /\ i \in DOMAIN showFetches
    /\ showFetches' = RemoveAt(showFetches, i)
    /\ UNCHANGED <<dbShows, dbSeats, showForm, savingShow, shows, addShow, showSeq, toast,
                   orderVars>>

\* The store deleting a show: its seats go with it.
StoreDeleteShow(id) ==
    /\ dbShows' = SelectSeq(dbShows, LAMBDA s : s.id # id)
    /\ dbSeats' = SelectSeq(dbSeats, LAMBDA s : s.show_id # id)

\* handleDeleteShow of a listed show, the delete succeeding.
DeleteShowOk(id) ==
    /\ \E i \in DOMAIN shows : shows[i].id = id
    /\ StoreDeleteShow(id)
    /\ SetToast(SuccessToast("Show removed"))
    /\ FetchShowsCall
    /\ UNCHANGED <<showForm, savingShow, shows, addShow, showSeq, orderVars>>

\* handleDeleteShow of a listed show, the delete failing.
DeleteShowFail(id) ==
    /\ \E i \in DOMAIN shows : shows[i].id = id
    /\ \E msg \in StoreErrors : SetToast(ErrorToast(msg))
    /\ UNCHANGED <<showVars, orderVars>>

----------------------------------------------------------------------------
(* Pages: mounting, authentication, the MyOrders view (src/unnamed/part_000) *)

SyncAdmins == {"a1"}      \* the dashboards that take part in SpecSync

\* The event each view's channel is registered for.
AdminChannelEvent == "*"
MyChannelEvent    == "UPDATE"

\* postgres_changes: a channel registered for `filter` receives `event`.
Delivers(filter, event) == filter = "*" \/ filter = event

\* A committed change of table orders, as it reaches the MyOrders channel.
PublishMy(event) ==
    myNotif' = myNotif + (IF Delivers(MyChannelEvent, event) THEN chans[MyView] ELSE 0)

\* An embedded to-one resource whose row does not exist.
Null == [null |-> TRUE]

\* A seat's key in table seats: its show and its label.
SeatId(sid, label) == <<sid, label>>

\* shows(show_time, screen, ...): the show an order references (the title
\* of its movie, which no list of the model's orders is read for, left out).
EmbedShow(sid) ==
    IF \E i \in DOMAIN dbShows : dbShows[i].id = sid
    THEN LET row == dbShows[CHOOSE i \in DOMAIN dbShows : dbShows[i].id = sid]
         IN  [show_time |-> row.show_time, screen |-> row.screen]
    ELSE Null

\* seats(seat_number): the seat an order_seats row references.
EmbedSeat(seat_id) ==
    IF \E i \in DOMAIN dbSeats : SeatId(dbSeats[i].show_id, dbSeats[i].seat_number) = seat_id
    THEN [seat_number |-> seat_id[2]]
    ELSE Null

\* snacks(name): the snack an order_items row references.
EmbedSnack(snack_id) ==
    IF \E i \in DOMAIN dbSnacks : dbSnacks[i].name = snack_id
    THEN [name |-> snack_id]
    ELSE Null

\* order_seats(seat_id, seats(seat_number)) of an order.
EmbedOrderSeats(id) ==
    LET rows == SelectSeq(dbOrderSeats, LAMBDA r : r.order_id = id)
    IN  [i \in DOMAIN rows |->
            [seat_id |-> rows[i].seat_id, seats |-> EmbedSeat(rows[i].seat_id)]]

\* order_items(quantity, snacks(name)) of an order.
EmbedOrderItems(id) ==
    LET rows == SelectSeq(dbOrderItems, LAMBDA r : r.order_id = id)
    IN  [i \in DOMAIN rows |->
            [quantity |-> rows[i].quantity, snacks |-> EmbedSnack(rows[i].snack_id)]]

\* select(`*, shows(...), order_seats(...), order_items(...)`) of one row.
SelectEmbedded(o) ==
    o @@ [shows |-> EmbedShow(o.show_id),
          order_seats |-> EmbedOrderSeats(o.id),
          order_items |-> EmbedOrderItems(o.id)]

\* .eq("user_id", user.id).order("created_at", { ascending: false })
QueryMyOrders(db, uid) ==
    LET rows == SelectSeq(QueryOrders(db), LAMBDA o : o.user_id = uid)
    IN  [i \in DOMAIN rows |-> SelectEmbedded(rows[i])]

\* The cleanup with removeChannel left out.
RemoveChannel_Missing(v) == chans' = chans

\* supabase.removeChannel(channel)
RemoveChannel(v) == chans' = [chans EXCEPT ![v] = @ - 1]

\* The store inserting an order (the booking flow's commit).
CreateOrder(id) ==
    /\ id \notin DOMAIN dbOrders
    /\ \A b \in Admins : notif[b] + chans[b] <= MaxNotif
    /\ myNotif + chans[MyView] <= MaxNotif
    /\ dbOrders' = [k \in DOMAIN dbOrders \cup {id} |->
                       IF k = id THEN NewOrder(id) ELSE dbOrders[k]]
    /\ Publish
    /\ PublishMy("INSERT")
    /\ UNCHANGED <<orders, loading, ordersView, fetches, pending, toast, showVars,
                   pageVars, myOrders, myLoading, myFetches>>

\* updateStatus committing at the store, seen from the MyOrders channel too.
SyncUpdateStatusOk(a, orderId, status) ==
    /\ myNotif + chans[MyView] <= MaxNotif
    /\ UpdateStatusOk(a, orderId, status)
    /\ PublishMy("UPDATE")
    /\ UNCHANGED <<pageVars, myOrders, myLoading, myFetches>>

\* AdminDashboard mounts: initial state, then the second effect's body
\* (the first fetchData and the subscription).
AdminMount(a) ==
    /\ ~mounted[a]
    /\ mounted' = [mounted EXCEPT ![a] = TRUE]
    /\ orders' = [orders EXCEPT ![a] = <<>>]
    /\ loading' = [loading EXCEPT ![a] = TRUE]
    /\ ordersView' = [ordersView EXCEPT ![a] = "active"]
    /\ fetches' = [fetches EXCEPT ![a] = <<QueryOrders(dbOrders)>>]
    /\ chans' = [chans EXCEPT ![a] = @ + 1]
    /\ UNCHANGED <<dbOrders, pending, notif, toast, showVars, auth, myVars>>

\* AdminDashboard unmounts (navigate("/") of the first effect, or the admin
\* leaving the page): the effect's cleanup runs, the component's state and
\* the continuations that would write it are gone.
AdminUnmount(a) ==
    /\ mounted[a]
    /\ mounted' = [mounted EXCEPT ![a] = FALSE]
    /\ RemoveChannel(a)
    /\ notif' = [notif EXCEPT ![a] = 0]
    /\ orders' = [orders EXCEPT ![a] = <<>>]
    /\ loading' = [loading EXCEPT ![a] = TRUE]
    /\ ordersView' = [ordersView EXCEPT ![a] = "active"]
    /\ fetches' = [fetches EXCEPT ![a] = <<>>]
    /\ pending' = [pending EXCEPT ![a] = <<>>]
    /\ UNCHANGED <<dbOrders, toast, showVars, auth, myVars>>

\* The auth context of a dashboard's session finishes loading.
AdminAuthResolve(a, isAdmin) ==
    /\ auth[a].loading
    /\ auth' = [auth EXCEPT ![a] = [loading |-> FALSE, user |-> a, isAdmin |-> isAdmin]]
    /\ UNCHANGED <<orderVars, toast, showVars, mounted, chans, myVars>>

\* The body of the MyOrders effect for user u: fetchOrders() and subscribe.
MyEffect(u, fs, n) ==
    IF u = NoUser
    THEN /\ myFetches' = fs
         /\ chans' = [chans EXCEPT ![MyView] = n]
    ELSE /\ myFetches' = Append(fs, QueryMyOrders(dbOrders, u))
         /\ chans' = [chans EXCEPT ![MyView] = n + 1]

\* MyOrders mounts: initial state, then the effect for the current user.
MyMount ==
    /\ ~mounted[MyView]
    /\ mounted' = [mounted EXCEPT ![MyView] = TRUE]
    /\ myOrders' = <<>>
    /\ myLoading' = TRUE
    /\ MyEffect(auth[MyView].user, <<>>, chans[MyView])
    /\ UNCHANGED <<orderVars, toast, showVars, auth, myNotif>>

\* MyOrders unmounts (navigate("/auth"), or the customer leaving the page).
MyUnmount ==
    /\ mounted[MyView]
    /\ mounted' = [mounted EXCEPT ![MyView] = FALSE]
    /\ IF auth[MyView].user # NoUser THEN RemoveChannel(MyView) ELSE chans' = chans
    /\ myNotif' = 0
    /\ myOrders' = <<>>
    /\ myLoading' = TRUE
    /\ myFetches' = <<>>
    /\ UNCHANGED <<orderVars, toast, showVars, auth>>

\* useAuth().user changes in the MyOrders session (the context finishes
\* loading, sign-in, sign-out); a mounted MyOrders runs the cleanup of the
\* effect for the previous user and then the effect for the new one. What
\* fetchOrders calls are in flight stay in flight.
MyAuthChange(u) ==
    /\ auth[MyView].loading \/ auth[MyView].user # u
    /\ auth' = [auth EXCEPT ![MyView] = [loading |-> FALSE, user |-> u, isAdmin |-> FALSE]]
    /\ IF mounted[MyView] /\ u # auth[MyView].user
       THEN /\ u # NoUser => Len(myFetches) < MaxMyFetch
            /\ myNotif' = 0
            /\ MyEffect(u, myFetches,
                        IF auth[MyView].user # NoUser
                        THEN chans[MyView] - 1 ELSE chans[MyView])
       ELSE UNCHANGED <<myFetches, chans, myNotif>>
    /\ UNCHANGED <<orderVars, toast, showVars, mounted, myOrders, myLoading>>

\* The MyOrders channel callback: () => fetchOrders().
MyNotify ==
    /\ myNotif > 0
    /\ Len(myFetches) < MaxMyFetch
    /\ myNotif' = myNotif - 1
    /\ myFetches' = Append(myFetches, QueryMyOrders(dbOrders, auth[MyView].user))
    /\ UNCHANGED <<orderVars, toast, showVars, pageVars, myOrders, myLoading>>

\* fetchOrders after its await: if (data) setOrders(data); setLoading(false).
MyFetchReturn(i) ==
    /\ i \in DOMAIN myFetches
    /\ myOrders' = setOrders(myOrders, myFetches[i])
    /\ myLoading' = FALSE
    /\ myFetches' = RemoveAt(myFetches, i)
    /\ UNCHANGED <<orderVars, toast, showVars, pageVars, myNotif>>

\* fetchOrders after its await, the query failed: data is null.
MyFetchError(i) ==
    /\ i \in DOMAIN myFetches
    /\ myLoading' = FALSE
    /\ myFetches' = RemoveAt(myFetches, i)
    /\ UNCHANGED <<orderVars, toast, showVars, pageVars, myOrders, myNotif>>

----------------------------------------------------------------------------
(* Booked seats and snacks: the join tables and what MyOrders renders *)

\* The seats and the snack line items the booking flow reserves for an order.
BookedSeats(id) == <<ROWS[id] \o "1", ROWS[id] \o "2">>
BookedItems(id) == <<[snack_id |-> "Popcorn", quantity |-> 2]>>

\* The booking flow's commit with its join rows: the order, one order_seats
\* row per seat and one order_items row per snack, all referencing rows
\* that exist.
BookOrder(id) ==
    /\ CreateOrder(id)
    /\ \A k \in DOMAIN BookedSeats(id) :
          EmbedSeat(SeatId(NewOrder(id).show_id, BookedSeats(id)[k])) # Null
    /\ \A k \in DOMAIN BookedItems(id) : EmbedSnack(BookedItems(id)[k].snack_id) # Null
    /\ dbOrderSeats' = dbOrderSeats \o
          [k \in DOMAIN BookedSeats(id) |->
              [order_id |-> id,
               seat_id |-> SeatId(NewOrder(id).show_id, BookedSeats(id)[k])]]
    /\ dbOrderItems' = dbOrderItems \o
          [k \in DOMAIN BookedItems(id) |->
              [order_id |-> id, snack_id |-> BookedItems(id)[k].snack_id,
               quantity |-> BookedItems(id)[k].quantity]]

\* handleDeleteShow succeeding where the order_seats rows of the deleted
\* seats stay behind (their seat gone).
DeleteShowKeepRows(id) ==
    /\ DeleteShowOk(id)
    /\ UNCHANGED <<dbOrderSeats, dbOrderItems>>

\* handleDeleteShow succeeding where the order_seats rows of the deleted
\* seats are deleted with them.
DeleteShowCascadeRows(id) ==
    /\ DeleteShowOk(id)
    /\ dbOrderSeats' = SelectSeq(dbOrderSeats, LAMBDA r : r.seat_id[1] # id)
    /\ UNCHANGED dbOrderItems

\* What an optional chain on null gives, as text.
Undefined == "undefined"

\* .filter(Boolean) over strings.
Boolean(x) == x # Undefined /\ x # ""

\* order.order_seats.map((s) => s.seats?.seat_number).filter(Boolean)
seatNums(order) ==
    LET m == [i \in DOMAIN order.order_seats |->
                 IF order.order_seats[i].seats = Null
                 THEN Undefined
                 ELSE order.order_seats[i].seats.seat_number]
    IN  SelectSeq(m, Boolean)

\* order.order_items.map((it) => `${it.snacks?.name} x${it.quantity}`)
\* .filter(Boolean): a template string is never empty, so nothing is
\* filtered out (the multiplication sign written x).
snackItems(order) ==
    LET m == [i \in DOMAIN order.order_items |->
                 (IF order.order_items[i].snacks = Null
                  THEN Undefined
                  ELSE order.order_items[i].snacks.name)
                 \o " x" \o ToString(order.order_items[i].quantity)]
    IN  SelectSeq(m, LAMBDA x : x # "")

----------------------------------------------------------------------------
(* Commit order: the updates of an order numbered as the store commits them *)

\* ver[id]: updates of order id committed so far (0: as inserted);
\* st[id][k + 1]: the status commit k of order id wrote.
\* fetch[a], pend[a]: for each fetchData / updateStatus call of session a in
\* flight, the commit whose status it will write into the list (fetch: for
\* every order; pend: 0 for a call the store failed, which writes a status
\* no update committed).
\* cur[a][id]: the commit whose status session a's list holds for order id
\* (-1: a status no update committed); high[a][id]: the latest it has held.
NoHist ==
    [ver   |-> [id \in OrderIds |-> 0],
     st    |-> [id \in OrderIds |-> <<NewOrder(id).status>>],
     fetch |-> [a \in Admins |-> <<>>],
     pend  |-> [a \in Admins |-> <<>>],
     cur   |-> [a \in Admins |-> [id \in OrderIds |-> 0]],
     high  |-> [a \in Admins |-> [id \in OrderIds |-> 0]]]

Max(x, y) == IF x >= y THEN x ELSE y

\* Session a's list now holds, for each order, the status of commit c[id].
Display(h, a, c) ==
    [h EXCEPT !.cur[a] = c,
              !.high[a] = [id \in OrderIds |-> Max(@[id], c[id])]]

CommitUpdateStatusOk(a, orderId, status) ==
    /\ hist.ver[orderId] < MaxCommits
    /\ UpdateStatusOk(a, orderId, status)
    /\ hist' = [hist EXCEPT !.ver[orderId] = @ + 1,
                            !.st[orderId] = Append(@, status),
                            !.pend[a] = Append(@, hist.ver[orderId] + 1)]

CommitUpdateStatusFail(a, orderId, status) ==
    /\ UpdateStatusFail(a, orderId, status)
    /\ hist' = [hist EXCEPT !.pend[a] = Append(@, -1)]

CommitUpdateStatusReturn(a, i) ==
    /\ UpdateStatusReturn(a, i)
    /\ hist' = [Display(hist, a, [hist.cur[a] EXCEPT
                                     ![pending[a][i].orderId] = hist.pend[a][i]])
                  EXCEPT !.pend[a] = RemoveAt(@, i)]

CommitNotify(a) ==
    /\ Notify(a)
    /\ hist' = [hist EXCEPT !.fetch[a] = Append(@, hist.ver)]

CommitFetchReturn(a, i) ==
    /\ FetchReturn(a, i)
    /\ hist' = [Display(hist, a, hist.fetch[a][i]) EXCEPT !.fetch[a] = RemoveAt(@, i)]

CommitFetchError(a, i) ==
    /\ FetchError(a, i)
    /\ hist' = [hist EXCEPT !.fetch[a] = RemoveAt(@, i)]

----------------------------------------------------------------------------
(* Derived lists: show filter, Active / History, revenue *)

ShowFilters == {"all", "s1", "s2"}     \* the Select: All Shows and two shows

\* history with Ready orders counted in.
history_WithReady == SelectSeq(myOrders, LAMBDA o : o.status \in {"Collected", "Ready"})

\* MyOrders: orders.filter((o) => o.status !== "Collected") and its complement.
active  == SelectSeq(myOrders, LAMBDA o : o.status # "Collected")
history == SelectSeq(myOrders, LAMBDA o : o.status = "Collected")
shown   == IF tab = "active" THEN active ELSE history

\* onValueChange={setFilterShow}
SetFilterShow(a, f) ==
    /\ ~loading[a]
    /\ filterShow[a] # f
    /\ filterShow' = [filterShow EXCEPT ![a] = f]
    /\ UNCHANGED <<orderVars, toast, showVars, pageVars, myVars, hist, tab, activeTab>>

\* onClick={() => setTab(t)}
SetTab(t) ==
    /\ ~myLoading
    /\ tab # t
    /\ tab' = t
    /\ UNCHANGED <<orderVars, toast, showVars, pageVars, myVars, hist, filterShow,
                   activeTab>>

----------------------------------------------------------------------------
(* The ticket modal of MyOrders *)

\* onClick={() => setQrOrder({ order, show, seatNums })} on the k-th card:
\* the button is rendered on the Active tab only, behind the loading gate,
\* and is under the modal's overlay while a ticket is open.
SetQrOrder(k) ==
    /\ mounted[MyView] /\ ~auth[MyView].loading /\ ~myLoading
    /\ tab = "active"
    /\ qrOrder = Null
    /\ k \in DOMAIN shown
    /\ qrOrder' = [order |-> shown[k], show |-> shown[k].shows,
                   seatNums |-> seatNums(shown[k])]
    /\ UNCHANGED <<orderVars, toast, showVars, pageVars, myVars, tab>>

\* onClick={() => setQrOrder(null)} (the overlay, the close button).
CloseTicket ==
    /\ qrOrder # Null
    /\ qrOrder' = Null
    /\ UNCHANGED <<orderVars, toast, showVars, pageVars, myVars, tab>>

\* setTab(t), the tab buttons being under the overlay while a ticket is open.
TicketSetTab(t) ==
    /\ qrOrder = Null
    /\ SetTab(t)
    /\ UNCHANGED qrOrder

----------------------------------------------------------------------------
(* Movies and snacks: the other two forms of the page *)

emptyMovie == [title |-> "", duration |-> "", genre |-> "", rating |-> "",
               description |-> "", poster_url |-> ""]
empty == [name |-> "", price |-> "", category |-> "snack", image_url |-> ""]

\* What the validated controls can hold.
TitleChoices    == {"", "Dune"}
DurationChoices == {"", "2h 35m"}
NameChoices     == {"", "Popcorn"}
PriceChoices    == {"", "150", "0", "-5", "abc"}

NaN == [nan |-> TRUE, val |-> 0]

\* Number(s) of a string: the number its text denotes, NaN when it is not
\* numeric text, 0 for the empty string.
NumberOfString(s) ==
    CASE s = "150" -> [nan |-> FALSE, val |-> 150]
      [] s = "0"   -> [nan |-> FALSE, val |-> 0]
      [] s = "-5"  -> [nan |-> FALSE, val |-> -5]
      [] s = ""    -> [nan |-> FALSE, val |-> 0]
      [] OTHER     -> NaN

isNaN(n) == n.nan

\* !movieForm.title || !movieForm.duration
MovieFormRejected(f) == f.title = "" \/ f.duration = ""

\* The snack checks without the test of the price's value.
SnackFormRejected_NoPriceTest(f) ==
    IF f.name = "" \/ f.price = "" THEN "Name and price are required" ELSE ""

\* The two checks of handleSubmit: the message of the first that fails, ""
\* when both pass.
SnackFormRejected(f) ==
    IF f.name = "" \/ f.price = "" THEN "Name and price are required"
    ELSE IF isNaN(NumberOfString(f.price)) \/ NumberOfString(f.price).val <= 0
         THEN "Enter a valid price"
         ELSE ""

\* setM(k, v)
SetM(k, v) ==
    /\ movieForm[k] # v
    /\ movieForm' = [movieForm EXCEPT ![k] = v]
    /\ UNCHANGED <<dbMovies, savingMovie, movies, movieFetches, addMovie, toast>>

\* handleAddMovie up to its await (the submit button is disabled while
\* savingMovie).
HandleAddMovie ==
    /\ ~savingMovie
    /\ IF MovieFormRejected(movieForm)
       THEN /\ SetToast(ErrorToast("Title and duration are required"))
            /\ UNCHANGED movieVars
       ELSE /\ savingMovie' = TRUE
            /\ addMovie' = [pc |-> "await", row |-> movieForm]
            /\ UNCHANGED <<dbMovies, movieForm, movies, movieFetches, toast>>

\* fetchMovies up to its await (created_at descending: latest insert first).
FetchMoviesCall ==
    /\ Len(movieFetches) < MaxListFetch
    /\ movieFetches' = Append(movieFetches,
                              [i \in DOMAIN dbMovies' |-> dbMovies'[Len(dbMovies') + 1 - i]])

\* The movie insert succeeds; handleAddMovie runs to its end.
MovieInsertOk ==
    /\ addMovie.pc = "await"
    /\ Len(dbMovies) < MaxMovies
    /\ dbMovies' = Append(dbMovies, addMovie.row)
    /\ savingMovie' = FALSE
    /\ SetToast(SuccessToast("Movie added!"))
    /\ movieForm' = emptyMovie
    /\ FetchMoviesCall
    /\ addMovie' = [pc |-> "idle"]
    /\ UNCHANGED movies

\* The movie insert fails.
MovieInsertFail ==
    /\ addMovie.pc = "await"
    /\ savingMovie' = FALSE
    /\ \E msg \in StoreErrors : SetToast(ErrorToast(msg))
    /\ addMovie' = [pc |-> "idle"]
    /\ UNCHANGED <<dbMovies, movieForm, movies, movieFetches>>

\* fetchMovies after its await: if (data) setMovies(data), or data null.
MoviesFetchReturn(i, ok) ==
    /\ i \in DOMAIN movieFetches
    /\ movies' = IF ok THEN movieFetches[i] ELSE movies
    /\ movieFetches' = RemoveAt(movieFetches, i)
    /\ UNCHANGED <<dbMovies, movieForm, savingMovie, addMovie, toast>>

\* set(k, v) of the snack form
SetSnack(k, v) ==
    /\ form[k] # v
    /\ form' = [form EXCEPT ![k] = v]
    /\ UNCHANGED <<dbSnacks, saving, snacks, snackFetches, addSnack, toast>>

\* AddSnackForm's handleSubmit up to its await.
HandleSubmit ==
    /\ ~saving
    /\ IF SnackFormRejected(form) # ""
       THEN /\ SetToast(ErrorToast(SnackFormRejected(form)))
            /\ UNCHANGED snackVars
       ELSE /\ saving' = TRUE
            /\ addSnack' = [pc |-> "await",
                            row |-> [form EXCEPT !.price = NumberOfString(form.price)]]
            /\ UNCHANGED <<dbSnacks, form, snacks, snackFetches, toast>>

FetchSnacksCall ==
    /\ Len(snackFetches) < MaxListFetch
    /\ snackFetches' = Append(snackFetches,
                              [i \in DOMAIN dbSnacks' |-> dbSnacks'[Len(dbSnacks') + 1 - i]])

\* The snack insert succeeds; handleSubmit runs to its end.
SnackInsertOk ==
    /\ addSnack.pc = "await"
    /\ Len(dbSnacks) < MaxSnacks
    /\ dbSnacks' = Append(dbSnacks, addSnack.row)
    /\ saving' = FALSE
    /\ SetToast(SuccessToast("Snack added!"))
    /\ form' = empty
    /\ FetchSnacksCall
    /\ addSnack' = [pc |-> "idle"]
    /\ UNCHANGED snacks

\* The snack insert fails.
SnackInsertFail ==
    /\ addSnack.pc = "await"
    /\ saving' = FALSE
    /\ \E msg \in StoreErrors : SetToast(ErrorToast(msg))
    /\ addSnack' = [pc |-> "idle"]
    /\ UNCHANGED <<dbSnacks, form, snacks, snackFetches>>

\* fetchSnacks after its await: if (data) setSnacks(data), or data null.
SnacksFetchReturn(i, ok) ==
    /\ i \in DOMAIN snackFetches
    /\ snacks' = IF ok THEN snackFetches[i] ELSE snacks
    /\ snackFetches' = RemoveAt(snackFetches, i)
    /\ UNCHANGED <<dbSnacks, form, saving, addSnack, toast>>

\* The movie and snack parts as useState initialises them, nothing in
\* flight.
InitForms ==
    /\ dbMovies = <<>>
    /\ movieForm = emptyMovie
    /\ savingMovie = FALSE
    /\ movies = <<>>
    /\ movieFetches = <<>>
    /\ addMovie = [pc |-> "idle"]
    /\ dbSnacks = <<>>
    /\ form = empty
    /\ saving = FALSE
    /\ snacks = <<>>
    /\ snackFetches = <<>>
    /\ addSnack = [pc |-> "idle"]

Tabs == {"orders", "movies", "snacks"}

\* The state of the two form components when tab t has just been opened: a
\* component that is not rendered has no state (kept here at useState's
\* initial values), the one that is has just been mounted and has issued
\* its effect's fetches (qs: what the shows query read).
FormsStateOf(t, qs) ==
    [movieForm |-> emptyMovie, savingMovie |-> FALSE, movies |-> <<>>,
     addMovie |-> [pc |-> "idle"],
     showForm |-> emptyShow, savingShow |-> FALSE, shows |-> <<>>,
     addShow |-> [pc |-> "idle"],
     form |-> empty, saving |-> FALSE, snacks |-> <<>>,
     addSnack |-> [pc |-> "idle"],
     movieFetches |-> IF t = "movies"
                      THEN <<[i \in DOMAIN dbMovies |-> dbMovies[Len(dbMovies) + 1 - i]]>>
                      ELSE <<>>,
     showFetches |-> IF t = "movies" THEN <<qs>> ELSE <<>>,
     snackFetches |-> IF t = "snacks"
                      THEN <<[i \in DOMAIN dbSnacks |-> dbSnacks[Len(dbSnacks) + 1 - i]]>>
                      ELSE <<>>]

\* No form component rendered.
FormsClosed ==
    /\ movieForm = emptyMovie /\ savingMovie = FALSE /\ movies = <<>>
    /\ addMovie = [pc |-> "idle"]
    /\ showForm = emptyShow /\ savingShow = FALSE /\ shows = <<>>
    /\ addShow = [pc |-> "idle"]
    /\ form = empty /\ saving = FALSE /\ snacks = <<>>
    /\ addSnack = [pc |-> "idle"]
    /\ movieFetches = <<>> /\ showFetches = <<>> /\ snackFetches = <<>>

\* onClick={() => setActiveTab(id)}: the component of the tab left is
\* unmounted, the one of the tab opened is mounted (taken when the
\* component left has no call in flight).
SetActiveTab(t) ==
    /\ activeTab[FormSession] # t
    /\ addMovie.pc = "idle" /\ addShow.pc = "idle" /\ addSnack.pc = "idle"
    /\ movieFetches = <<>> /\ showFetches = <<>> /\ snackFetches = <<>>
    /\ activeTab' = [activeTab EXCEPT ![FormSession] = t]
    /\ \E qs \in QueryShows(dbShows) :
          LET n == FormsStateOf(t, qs)
          IN  /\ movieForm' = n.movieForm /\ savingMovie' = n.savingMovie
              /\ movies' = n.movies /\ addMovie' = n.addMovie
              /\ movieFetches' = n.movieFetches
              /\ showForm' = n.showForm /\ savingShow' = n.savingShow
              /\ shows' = n.shows /\ addShow' = n.addShow
              /\ showFetches' = n.showFetches
              /\ form' = n.form /\ saving' = n.saving /\ snacks' = n.snacks
              /\ addSnack' = n.addSnack /\ snackFetches' = n.snackFetches
    /\ UNCHANGED <<orderVars, toast, dbShows, dbSeats, showSeq, dbMovies, dbSnacks>>

----------------------------------------------------------------------------
(* Initial state: every session mounted, its first fetchData in flight and *)
(* its channel subscribed; AddMovieForm mounted, its fetchShows in flight. *)

InitOrders ==
    /\ dbOrders = [id \in OrderIds |-> NewOrder(id)]
    /\ orders = [a \in Admins |-> <<>>]
    /\ loading = [a \in Admins |-> TRUE]
    /\ ordersView = [a \in Admins |-> "active"]
    /\ fetches = [a \in Admins |-> <<QueryOrders(dbOrders)>>]
    /\ pending = [a \in Admins |-> <<>>]
    /\ notif = [a \in Admins |-> 0]
    /\ toast = [a \in Admins |-> NoToast]
    /\ mounted = [v \in Views |-> v \in Admins]
    /\ chans = [v \in Views |-> IF v \in Admins THEN 1 ELSE 0]
    /\ auth = [v \in Views |->
                 IF v \in Admins
                 THEN [loading |-> FALSE, user |-> v, isAdmin |-> TRUE]
                 ELSE [loading |-> TRUE, user |-> NoUser, isAdmin |-> FALSE]]
    /\ myOrders = <<>>
    /\ myLoading = TRUE
    /\ myFetches = <<>>
    /\ myNotif = 0
    /\ hist = NoHist
    /\ filterShow = [a \in Admins |-> "all"]
    /\ tab = "active"
    /\ qrOrder = Null

InitShows ==
    /\ dbShows = <<>>
    /\ dbSeats = <<>>
    /\ showForm = [movie_id |-> "", screen |-> "", show_time |-> ""]
    /\ savingShow = FALSE
    /\ shows = <<>>
    /\ showFetches \in {<<q>> : q \in QueryShows(dbShows)}
    /\ addShow = [pc |-> "idle"]
    /\ showSeq = 0
    /\ dbOrderSeats = <<>>
    /\ dbOrderItems = <<>>
    /\ InitForms

\* Every session on the Orders tab.
Init == InitOrders /\ InitShows /\ activeTab = [a \in Admins |-> "orders"]

\* The form session on the Movies tab, AddMovieForm just mounted.
InitMoviesTab ==
    /\ InitOrders
    /\ InitShows
    /\ activeTab = [a \in Admins |-> IF a = FormSession THEN "movies" ELSE "orders"]

Next ==
  /\ UNCHANGED <<pageVars, myVars, hist, viewVars, movieVars, snackVars, joinVars, qrOrder>>
  /\
    \/ \E a \in Admins, id \in OrderIds, s \in StatusArgs : UpdateStatusOk(a, id, s)
    \/ \E a \in Admins, id \in OrderIds, s \in StatusArgs : UpdateStatusFail(a, id, s)
    \/ \E a \in Admins, i \in 1..MaxPending : UpdateStatusReturn(a, i)
    \/ \E a \in Admins : Notify(a)
    \/ \E a \in Admins, i \in 1..MaxFetch : FetchReturn(a, i)
    \/ \E a \in Admins, i \in 1..MaxFetch : FetchError(a, i)
    \/ \E a \in Admins, v \in {"active", "history"} : SetOrdersView(a, v)

Spec == Init /\ [][Next]_vars

NextShows ==
  /\ UNCHANGED <<pageVars, myVars, hist, viewVars, movieVars, snackVars, joinVars, qrOrder>>
  /\
    \/ \E v \in MovieChoices : SetS("movie_id", v)
    \/ \E v \in ScreenChoices : SetS("screen", v)
    \/ \E v \in TimeChoices : SetS("show_time", v)
    \/ AddShowInvalid
    \/ AddShowSubmit
    \/ ShowInsertOk
    \/ ShowInsertFail
    \/ SeatInsertOk
    \/ SeatInsertFail
    \/ \E i \in 1..MaxShowFetch : ShowsFetchReturn(i)
    \/ \E i \in 1..MaxShowFetch : ShowsFetchError(i)
    \/ \E id \in ShowKeys : DeleteShowOk(id)
    \/ \E id \in ShowKeys : DeleteShowFail(id)

SpecShows == InitMoviesTab /\ [][NextShows]_vars

\* Every page closed, every auth context still loading, no order booked yet.
InitSync ==
    /\ InitShows
    /\ dbOrders = [id \in {} |-> NewOrder(id)]
    /\ orders = [a \in Admins |-> <<>>]
    /\ loading = [a \in Admins |-> TRUE]
    /\ ordersView = [a \in Admins |-> "active"]
    /\ fetches = [a \in Admins |-> <<>>]
    /\ pending = [a \in Admins |-> <<>>]
    /\ notif = [a \in Admins |-> 0]
    /\ toast = [a \in Admins |-> NoToast]
    /\ mounted = [v \in Views |-> FALSE]
    /\ chans = [v \in Views |-> 0]
    /\ auth = [v \in Views |-> [loading |-> TRUE, user |-> NoUser, isAdmin |-> FALSE]]
    /\ myOrders = <<>>
    /\ myLoading = TRUE
    /\ myFetches = <<>>
    /\ myNotif = 0
    /\ hist = NoHist
    /\ filterShow = [a \in Admins |-> "all"]
    /\ tab = "active"
    /\ qrOrder = Null
    /\ activeTab = [a \in Admins |-> "orders"]

NextSync ==
  /\ UNCHANGED <<hist, viewVars, movieVars, snackVars, joinVars, qrOrder>>
  /\
    \/ \E id \in OrderIds : CreateOrder(id)
    \/ \E a \in SyncAdmins, id \in OrderIds, s \in StatusArgs : SyncUpdateStatusOk(a, id, s)
    \/ /\ UNCHANGED <<pageVars, myVars>>
       /\ \/ \E a \in SyncAdmins, id \in OrderIds, s \in StatusArgs : UpdateStatusFail(a, id, s)
          \/ \E a \in SyncAdmins, i \in 1..MaxPending : UpdateStatusReturn(a, i)
          \/ \E a \in SyncAdmins : Notify(a)
          \/ \E a \in SyncAdmins, i \in 1..MaxFetch : FetchReturn(a, i)
          \/ \E a \in SyncAdmins, i \in 1..MaxFetch : FetchError(a, i)
    \/ \E a \in SyncAdmins : AdminMount(a)
    \/ \E a \in SyncAdmins : AdminUnmount(a)
    \/ \E a \in SyncAdmins, isAdmin \in BOOLEAN : AdminAuthResolve(a, isAdmin)
    \/ MyMount
    \/ MyUnmount
    \/ \E u \in Users \cup {NoUser} : MyAuthChange(u)
    \/ MyNotify
    \/ \E i \in 1..MaxMyFetch : MyFetchReturn(i)
    \/ \E i \in 1..MaxMyFetch : MyFetchError(i)

SpecSync == InitSync /\ [][NextSync]_vars

\* Both pages open and staying open: dashboard a1 with an admin signed in,
\* MyOrders with customer u1 signed in, each with its first fetch in flight
\* and its channel subscribed; no order booked yet.
InitLive ==
    /\ InitShows
    /\ dbOrders = [id \in {} |-> NewOrder(id)]
    /\ orders = [a \in Admins |-> <<>>]
    /\ loading = [a \in Admins |-> TRUE]
    /\ ordersView = [a \in Admins |-> "active"]
    /\ fetches = [a \in Admins |-> IF a \in SyncAdmins THEN <<QueryOrders(dbOrders)>> ELSE <<>>]
    /\ pending = [a \in Admins |-> <<>>]
    /\ notif = [a \in Admins |-> 0]
    /\ toast = [a \in Admins |-> NoToast]
    /\ mounted = [v \in Views |-> v \in SyncAdmins \cup {MyView}]
    /\ chans = [v \in Views |-> IF v \in SyncAdmins \cup {MyView} THEN 1 ELSE 0]
    /\ auth = [v \in Views |->
                 IF v \in Admins
                 THEN [loading |-> FALSE, user |-> v, isAdmin |-> TRUE]
                 ELSE [loading |-> FALSE, user |-> "u1", isAdmin |-> FALSE]]
    /\ myOrders = <<>>
    /\ myLoading = TRUE
    /\ myFetches = <<QueryMyOrders(dbOrders, "u1")>>
    /\ myNotif = 0
    /\ hist = NoHist
    /\ filterShow = [a \in Admins |-> "all"]
    /\ tab = "active"
    /\ qrOrder = Null
    /\ activeTab = [a \in Admins |-> "orders"]

\* The steps of a run in which nothing fails and no page is closed.
LiveAdmin ==
    /\ UNCHANGED <<pageVars, myVars, hist, viewVars, movieVars, snackVars, joinVars, qrOrder>>
    /\ \/ \E a \in SyncAdmins, i \in 1..MaxPending : UpdateStatusReturn(a, i)
       \/ \E a \in SyncAdmins : Notify(a)
       \/ \E a \in SyncAdmins, i \in 1..MaxFetch : FetchReturn(a, i)

LiveMy ==
    /\ UNCHANGED <<hist, viewVars, movieVars, snackVars, joinVars, qrOrder>>
    /\ \/ MyNotify
       \/ \E i \in 1..MaxMyFetch : MyFetchReturn(i)

NextLive ==
  /\ UNCHANGED <<hist, viewVars, movieVars, snackVars, joinVars, qrOrder>>
  /\
    \/ \E id \in OrderIds : CreateOrder(id)
    \/ \E a \in SyncAdmins, id \in OrderIds, s \in StatusArgs : SyncUpdateStatusOk(a, id, s)
    \/ LiveAdmin
    \/ LiveMy

\* Every response arrives and every queued realtime event is delivered.
SpecLive == InitLive /\ [][NextLive]_vars /\ WF_vars(LiveAdmin) /\ WF_vars(LiveMy)

\* Dashboard a1 open with an admin signed in, its first fetchData in flight.
InitCommit ==
    /\ InitShows
    /\ dbOrders = [id \in OrderIds |-> NewOrder(id)]
    /\ orders = [a \in Admins |-> <<>>]
    /\ loading = [a \in Admins |-> TRUE]
    /\ ordersView = [a \in Admins |-> "active"]
    /\ fetches = [a \in Admins |-> IF a \in SyncAdmins THEN <<QueryOrders(dbOrders)>> ELSE <<>>]
    /\ pending = [a \in Admins |-> <<>>]
    /\ notif = [a \in Admins |-> 0]
    /\ toast = [a \in Admins |-> NoToast]
    /\ mounted = [v \in Views |-> v \in SyncAdmins]
    /\ chans = [v \in Views |-> IF v \in SyncAdmins THEN 1 ELSE 0]
    /\ auth = [v \in Views |->
                 IF v \in Admins
                 THEN [loading |-> FALSE, user |-> v, isAdmin |-> TRUE]
                 ELSE [loading |-> TRUE, user |-> NoUser, isAdmin |-> FALSE]]
    /\ myOrders = <<>>
    /\ myLoading = TRUE
    /\ myFetches = <<>>
    /\ myNotif = 0
    /\ hist = [NoHist EXCEPT !.fetch = [a \in Admins |->
                                          IF a \in SyncAdmins THEN <<NoHist.ver>> ELSE <<>>]]
    /\ filterShow = [a \in Admins |-> "all"]
    /\ tab = "active"
    /\ qrOrder = Null
    /\ activeTab = [a \in Admins |-> "orders"]

NextCommit ==
  /\ UNCHANGED <<pageVars, myVars, viewVars, movieVars, snackVars, joinVars, qrOrder>>
  /\
    \/ \E a \in SyncAdmins, id \in OrderIds, s \in StatusArgs : CommitUpdateStatusOk(a, id, s)
    \/ \E a \in SyncAdmins, id \in OrderIds, s \in StatusArgs : CommitUpdateStatusFail(a, id, s)
    \/ \E a \in SyncAdmins, i \in 1..MaxPending : CommitUpdateStatusReturn(a, i)
    \/ \E a \in SyncAdmins : CommitNotify(a)
    \/ \E a \in SyncAdmins, i \in 1..MaxFetch : CommitFetchReturn(a, i)
    \/ \E a \in SyncAdmins, i \in 1..MaxFetch : CommitFetchError(a, i)

SpecCommit == InitCommit /\ [][NextCommit]_vars

\* The store holds ViewOrders orders of customer u1, each for one of two
\* shows and in any status; dashboard a1 and u1's MyOrders are open, each
\* with its first fetch in flight.
InitViews ==
    /\ InitShows
    /\ \E st \in [1..ViewOrders -> Statuses], sh \in [1..ViewOrders -> {"s1", "s2"}] :
          dbOrders = [id \in 1..ViewOrders |->
                         [NewOrder(id) EXCEPT !.status = st[id], !.show_id = sh[id],
                                              !.user_id = "u1",
                                              !.total_amount = 250 * id]]
    /\ orders = [a \in Admins |-> <<>>]
    /\ loading = [a \in Admins |-> TRUE]
    /\ ordersView = [a \in Admins |-> "active"]
    /\ fetches = [a \in Admins |-> IF a \in SyncAdmins THEN <<QueryOrders(dbOrders)>> ELSE <<>>]
    /\ pending = [a \in Admins |-> <<>>]
    /\ notif = [a \in Admins |-> 0]
    /\ toast = [a \in Admins |-> NoToast]
    /\ mounted = [v \in Views |-> v \in SyncAdmins \cup {MyView}]
    /\ chans = [v \in Views |-> IF v \in SyncAdmins \cup {MyView} THEN 1 ELSE 0]
    /\ auth = [v \in Views |->
                 IF v \in Admins
                 THEN [loading |-> FALSE, user |-> v, isAdmin |-> TRUE]
                 ELSE [loading |-> FALSE, user |-> "u1", isAdmin |-> FALSE]]
    /\ myOrders = <<>>
    /\ myLoading = TRUE
    /\ myFetches = <<QueryMyOrders(dbOrders, "u1")>>
    /\ myNotif = 0
    /\ hist = NoHist
    /\ filterShow = [a \in Admins |-> "all"]
    /\ tab = "active"
    /\ qrOrder = Null
    /\ activeTab = [a \in Admins |-> "orders"]

NextViews ==
  /\ UNCHANGED <<movieVars, snackVars, joinVars, qrOrder>>
  /\
    \/ \E a \in SyncAdmins, f \in ShowFilters : SetFilterShow(a, f)
    \/ \E t \in {"active", "history"} : SetTab(t)
    \/ /\ UNCHANGED <<pageVars, myVars, hist, viewVars>>
       /\ \/ \E a \in SyncAdmins, v \in {"active", "history"} : SetOrdersView(a, v)
          \/ \E a \in SyncAdmins, id \in 1..ViewOrders, s \in StatusArgs :
                UpdateStatusFail(a, id, s)
          \/ \E a \in SyncAdmins, i \in 1..MaxPending : UpdateStatusReturn(a, i)
          \/ \E a \in SyncAdmins, i \in 1..MaxFetch : FetchReturn(a, i)
    \/ /\ UNCHANGED <<hist, viewVars>>
       /\ \E i \in 1..MaxMyFetch : MyFetchReturn(i)

SpecViews == InitViews /\ [][NextViews]_vars

NextMovieForm ==
    \/ \E v \in TitleChoices : SetM("title", v)
    \/ \E v \in DurationChoices : SetM("duration", v)
    \/ HandleAddMovie
    \/ MovieInsertOk
    \/ MovieInsertFail
    \/ \E i \in 1..MaxListFetch, ok \in BOOLEAN : MoviesFetchReturn(i, ok)

NextSnackForm ==
    \/ \E v \in NameChoices : SetSnack("name", v)
    \/ \E v \in PriceChoices : SetSnack("price", v)
    \/ HandleSubmit
    \/ SnackInsertOk
    \/ SnackInsertFail
    \/ \E i \in 1..MaxListFetch, ok \in BOOLEAN : SnacksFetchReturn(i, ok)

NextShowForm ==
    \/ \E v \in MovieChoices : SetS("movie_id", v)
    \/ \E v \in ScreenChoices : SetS("screen", v)
    \/ \E v \in TimeChoices : SetS("show_time", v)
    \/ AddShowInvalid
    \/ AddShowSubmit
    \/ ShowInsertFail

\* The form session on the Orders tab, no form component mounted.
InitTabs ==
    /\ InitOrders
    /\ FormsClosed
    /\ dbShows = <<>> /\ dbSeats = <<>> /\ showSeq = 0
    /\ dbOrderSeats = <<>> /\ dbOrderItems = <<>>
    /\ dbMovies = <<>> /\ dbSnacks = <<>>
    /\ activeTab = [a \in Admins |-> "orders"]

\* The tabs of the page and the forms of the tab that is open, each
\* submitting and being answered (a valid show is followed to the store's
\* answer only when the store refuses it: SpecShows has the rest).
NextForms ==
  /\ UNCHANGED <<pageVars, myVars, hist, filterShow, tab, joinVars, qrOrder>>
  /\
    \/ \E t \in Tabs : SetActiveTab(t)
    \/ /\ activeTab[FormSession] = "movies"
       /\ NextMovieForm
       /\ UNCHANGED <<orderVars, showVars, snackVars, activeTab>>
    \/ /\ activeTab[FormSession] = "movies"
       /\ NextShowForm
       /\ UNCHANGED <<movieVars, snackVars, activeTab>>
    \/ /\ activeTab[FormSession] = "snacks"
       /\ NextSnackForm
       /\ UNCHANGED <<orderVars, showVars, movieVars, activeTab>>

SpecForms == InitTabs /\ [][NextForms]_vars

\* A show with its 64 seats and a snack on sale; AddMovieForm open in the
\* form session, its list of shows being fetched; a customer signed in on
\* MyOrders, its first fetch in flight; nothing booked yet.
FirstShow ==
    [id |-> ShowKey(1), movie_id |-> "m1", screen |-> "Screen 1",
     show_time |-> toISOString("2026-01-01T10:00")]

InitHistory ==
    /\ dbOrders = [id \in {} |-> NewOrder(id)]
    /\ orders = [a \in Admins |-> <<>>]
    /\ loading = [a \in Admins |-> TRUE]
    /\ ordersView = [a \in Admins |-> "active"]
    /\ fetches = [a \in Admins |-> <<>>]
    /\ pending = [a \in Admins |-> <<>>]
    /\ notif = [a \in Admins |-> 0]
    /\ toast = [a \in Admins |-> NoToast]
    /\ dbShows = <<FirstShow>>
    /\ dbSeats = seatRows(FirstShow)
    /\ showSeq = 1
    /\ dbMovies = <<>>
    /\ dbSnacks = <<[name |-> "Popcorn", price |-> 150, category |-> "snack",
                     image_url |-> ""]>>
    /\ dbOrderSeats = <<>>
    /\ dbOrderItems = <<>>
    /\ FormsClosed
    /\ activeTab = [a \in Admins |-> "orders"]
    /\ mounted = [v \in Views |-> v = MyView]
    /\ chans = [v \in Views |-> IF v = MyView THEN 1 ELSE 0]
    /\ auth = [v \in Views |->
                 IF v \in Admins
                 THEN [loading |-> FALSE, user |-> v, isAdmin |-> TRUE]
                 ELSE [loading |-> FALSE, user |-> OwnerOf(1), isAdmin |-> FALSE]]
    /\ myOrders = <<>>
    /\ myLoading = TRUE
    /\ myFetches = <<QueryMyOrders(dbOrders, OwnerOf(1))>>
    /\ myNotif = 0
    /\ hist = NoHist
    /\ filterShow = [a \in Admins |-> "all"]
    /\ tab = "active"
    /\ qrOrder = Null

\* Booking, the admin opening the Movies tab and deleting the show, the
\* customer's MyOrders fetching (at mount) and rendering.
NextHistory ==
  /\ UNCHANGED <<hist, filterShow, tab, qrOrder>>
  /\
    \/ /\ \E id \in OrderIds : BookOrder(id)
       /\ UNCHANGED <<movieVars, snackVars, activeTab>>
    \/ /\ \E t \in {"orders", "movies"} : SetActiveTab(t)
       /\ UNCHANGED <<pageVars, myVars, joinVars>>
    \/ /\ \E i \in 1..MaxShowFetch : ShowsFetchReturn(i)
       /\ UNCHANGED <<pageVars, myVars, joinVars, movieVars, snackVars, activeTab>>
    \/ /\ \E i \in 1..MaxListFetch, ok \in BOOLEAN : MoviesFetchReturn(i, ok)
       /\ UNCHANGED <<pageVars, myVars, joinVars, orderVars, showVars, snackVars, activeTab>>
    \/ /\ \/ \E id \in ShowKeys : DeleteShowKeepRows(id)
          \/ \E id \in ShowKeys : DeleteShowCascadeRows(id)
       /\ UNCHANGED <<pageVars, myVars, movieVars, snackVars, activeTab>>
    \/ /\ \E id \in ShowKeys : DeleteShowFail(id)
       /\ UNCHANGED <<pageVars, myVars, joinVars, movieVars, snackVars, activeTab>>
    \/ /\ \/ MyMount
          \/ MyUnmount
          \/ \E i \in 1..MaxMyFetch : MyFetchReturn(i)
          \/ \E i \in 1..MaxMyFetch : MyFetchError(i)
       /\ UNCHANGED <<joinVars, movieVars, snackVars, activeTab>>

SpecHistory == InitHistory /\ [][NextHistory]_vars

\* The steps by which a response or a realtime event reaches dashboard a.
Deliver(a) ==
    /\ UNCHANGED <<pageVars, myVars, hist, viewVars, movieVars, snackVars, joinVars, qrOrder>>
    /\ \/ \E i \in 1..MaxPending : UpdateStatusReturn(a, i)
       \/ Notify(a)
       \/ \E i \in 1..MaxFetch : FetchReturn(a, i)

\* The orders table of one dashboard, its updates succeeding or failing at
\* the store, every query answered.
NextConverge ==
  /\ UNCHANGED <<pageVars, myVars, hist, viewVars, movieVars, snackVars, joinVars, qrOrder>>
  /\
    \/ \E a \in SyncAdmins, id \in OrderIds, s \in StatusArgs : UpdateStatusOk(a, id, s)
    \/ \E a \in SyncAdmins, id \in OrderIds, s \in StatusArgs : UpdateStatusFail(a, id, s)
    \/ \E a \in SyncAdmins : Deliver(a)

\* Every response arrives and every queued realtime event is delivered.
SpecConverge ==
    InitCommit /\ [][NextConverge]_vars /\ \A a \in SyncAdmins : WF_vars(Deliver(a))

\* MyOrders with its ticket modal, next to a dashboard whose admin moves
\* the customer's order on.
NextTicket ==
  /\ UNCHANGED <<hist, filterShow, activeTab, movieVars, snackVars, joinVars>>
  /\
    \/ /\ UNCHANGED <<tab, qrOrder>>
       /\ \/ \E a \in SyncAdmins, id \in OrderIds, s \in StatusArgs :
                SyncUpdateStatusOk(a, id, s)
          \/ LiveAdmin
          \/ LiveMy
    \/ \E t \in {"active", "history"} : TicketSetTab(t)
    \/ \E k \in 1..NumOrders : SetQrOrder(k)
    \/ CloseTicket

\* The customer's orders are booked and MyOrders has loaded them; the
\* dashboard is open, its first fetchData in flight; no ticket is open.
InitTicket ==
    /\ InitShows
    /\ dbOrders = [id \in OrderIds |-> [NewOrder(id) EXCEPT !.user_id = "u1"]]
    /\ orders = [a \in Admins |-> <<>>]
    /\ loading = [a \in Admins |-> TRUE]
    /\ ordersView = [a \in Admins |-> "active"]
    /\ fetches = [a \in Admins |-> IF a \in SyncAdmins THEN <<QueryOrders(dbOrders)>> ELSE <<>>]
    /\ pending = [a \in Admins |-> <<>>]
    /\ notif = [a \in Admins |-> 0]
    /\ toast = [a \in Admins |-> NoToast]
    /\ mounted = [v \in Views |-> v \in SyncAdmins \cup {MyView}]
    /\ chans = [v \in Views |-> IF v \in SyncAdmins \cup {MyView} THEN 1 ELSE 0]
    /\ auth = [v \in Views |->
                 IF v \in Admins
                 THEN [loading |-> FALSE, user |-> v, isAdmin |-> TRUE]
                 ELSE [loading |-> FALSE, user |-> "u1", isAdmin |-> FALSE]]
    /\ myOrders = QueryMyOrders(dbOrders, "u1")
    /\ myLoading = FALSE
    /\ myFetches = <<>>
    /\ myNotif = 0
    /\ hist = NoHist
    /\ filterShow = [a \in Admins |-> "all"]
    /\ tab = "active"
    /\ qrOrder = Null
    /\ activeTab = [a \in Admins |-> "orders"]

SpecTicket == InitTicket /\ [][NextTicket]_vars

----------------------------------------------------------------------------
(* Properties of the order workflow (checked under Spec) *)

\* C1: no step changes an order's stored status from a later status of
\* Confirmed < Preparing < Ready < Collected to an earlier one.
C1_StoredStatusMonotonic ==
    [][\A id \in OrderIds :
          Rank(dbOrders'[id].status) >= Rank(dbOrders[id].status)]_vars

\* C2: an order's stored status becomes Collected only by a step taken
\* while its stored status is Ready.
C2_CollectedOnlyFromReady ==
    [][\A id \in OrderIds :
          (dbOrders[id].status # "Collected" /\ dbOrders'[id].status = "Collected")
              => dbOrders[id].status = "Ready"]_vars

\* C3: Collected is terminal: once an order's stored status is Collected no
\* later step changes it.
C3_CollectedTerminal ==
    [][\A id \in OrderIds :
          dbOrders[id].status = "Collected" => dbOrders'[id].status = "Collected"]_vars

\* C4: every status held by the store, by a dashboard's orders list, by a
\* fetch response on its way and by an updateStatus call in flight is one of
\* Confirmed, Preparing, Ready, Collected.
C4_StatusesKnown ==
    /\ \A id \in DOMAIN dbOrders : dbOrders[id].status \in Statuses
    /\ \A a \in Admins :
          /\ \A i \in DOMAIN orders[a] : orders[a][i].status \in Statuses
          /\ \A i \in DOMAIN pending[a] : pending[a][i].status \in Statuses
          /\ \A i \in DOMAIN fetches[a] :
                \A k \in DOMAIN fetches[a][i] : fetches[a][i][k].status \in Statuses

\* C4 witness: updateStatus has run to its end in a session, whose list and
\* the store both hold the status it was called with.
C4_Witness ==
    \E a \in Admins, id \in OrderIds :
        /\ dbOrders[id].status = "Collected"
        /\ pending[a] = <<>>
        /\ \E i \in DOMAIN orders[a] :
              orders[a][i].id = id /\ orders[a][i].status = "Collected"

\* C8: when the store fails an update issued by updateStatus, the store's
\* orders are unchanged and, by the time the call returns, an error has been
\* reported in the session that invoked it.
C8_FailedUpdateReported ==
    [][\A a \in Admins :
          /\ \A id \in OrderIds, s \in StatusArgs :
                UpdateStatusFail(a, id, s) => dbOrders' = dbOrders
          /\ \A i \in 1..MaxPending :
                (UpdateStatusReturn(a, i) /\ pending[a][i].result = "error")
                    => toast'[a].kind = "error"]_vars

\* C9: a failed operation leaves the acting view's in-memory state as it
\* was: a failed updateStatus leaves the session's orders list unchanged, a
\* failed show insert, seat insert or show delete leaves the shows list and
\* the show form unchanged.
C9_FailureLeavesViewIntact ==
    [][/\ \A a \in Admins, i \in 1..MaxPending :
             (UpdateStatusReturn(a, i) /\ pending[a][i].result = "error")
                 => orders'[a] = orders[a]
       /\ (ShowInsertFail \/ SeatInsertFail \/ \E id \in ShowKeys : DeleteShowFail(id))
             => (shows' = shows /\ showForm' = showForm)]_vars

\* C10 as stated: updateStatus(o, s) called when o's stored status is
\* already s leaves the store and the session's orders list as they were and
\* reports no error.
C10_IdempotentAsStated ==
    [][\A a \in Admins :
          /\ \A id \in OrderIds, s \in StatusArgs :
                (UpdateStatusOk(a, id, s) /\ dbOrders[id].status = s)
                    => (dbOrders' = dbOrders /\ toast' = toast)
          /\ \A i \in 1..MaxPending :
                (UpdateStatusReturn(a, i) /\ pending[a][i].same)
                    => (orders'[a] = orders[a] /\ dbOrders' = dbOrders /\ toast' = toast)]_vars

\* C10 amended: updateStatus(o, s) called when o's stored status is already
\* s leaves the store as it was and reports no error; the session's orders
\* list is left as it was when its entry for o already shows s, and
\* otherwise changes in o's entry alone, which becomes s.
C10_Idempotent ==
    [][\A a \in Admins :
          /\ \A id \in OrderIds, s \in StatusArgs :
                (UpdateStatusOk(a, id, s) /\ dbOrders[id].status = s)
                    => (dbOrders' = dbOrders /\ toast' = toast)
          /\ \A i \in 1..MaxPending :
                (UpdateStatusReturn(a, i) /\ pending[a][i].same)
                    => LET c == pending[a][i]
                       IN  /\ dbOrders' = dbOrders
                           /\ toast' = toast
                           /\ DOMAIN orders'[a] = DOMAIN orders[a]
                           /\ \A k \in DOMAIN orders[a] :
                                 /\ orders[a][k].id # c.orderId
                                       => orders'[a][k] = orders[a][k]
                                 /\ orders[a][k].id = c.orderId
                                       => /\ orders'[a][k].status = c.status
                                          /\ orders'[a][k].id = c.orderId
                                 /\ orders[a][k].status = c.status
                                       => orders'[a][k] = orders[a][k]]_vars

\* C10 witness: an update naming the status the store already held has been
\* applied by the store, and the calling session's list shows another status.
C10_Witness ==
    \E a \in Admins, i \in 1..MaxPending :
        /\ i \in DOMAIN pending[a]
        /\ pending[a][i].same
        /\ pending[a][i].result = "ok"
        /\ dbOrders[pending[a][i].orderId].status = pending[a][i].status
        /\ \E k \in DOMAIN orders[a] :
              /\ orders[a][k].id = pending[a][i].orderId
              /\ orders[a][k].status # pending[a][i].status

----------------------------------------------------------------------------
(* Properties of show creation (checked under SpecShows) *)

GridLabels == {r \o ToString(c) : r \in {"A", "B", "C", "D", "E", "F", "G", "H"}, c \in 1..8}

\* The seats of show sid are the 8 x 8 grid, each label once, none booked.
FullGrid(seats, sid) ==
    /\ Cardinality(SeatsOf(seats, sid)) = 64
    /\ {seats[i].seat_number : i \in SeatsOf(seats, sid)} = GridLabels
    /\ Cardinality(GridLabels) = 64
    /\ {"A1", "A8", "D5", "H1", "H8"} \subseteq GridLabels
    /\ \A i \in SeatsOf(seats, sid) : seats[i].is_booked = FALSE

ScheduledToast == SuccessToast("Show scheduled with 64 seats!")

\* C5: when handleAddShow completes successfully for show S the store holds
\* exactly 64 seats of S, labelled A1..H8, each label once, none booked, and
\* the insert added no other row.
C5_SeatGridOnSuccess ==
    [][(/\ addShow.pc = "await_seats"
        /\ addShow'.pc = "idle"
        /\ toast'[FormSession] = ScheduledToast)
           => /\ FullGrid(dbSeats', addShow.show_id)
              /\ Len(dbSeats') = Len(dbSeats) + 64]_vars

\* C5 witness: handleAddShow has completed successfully for every show the
\* store holds; each show has its own grid.
C5_Witness ==
    /\ addShow.pc = "idle"
    /\ toast[FormSession] = ScheduledToast
    /\ Len(dbShows) = MaxShows
    /\ \A sid \in ShowIds(dbShows) : FullGrid(dbSeats, sid)

\* C6: every show in the store has its full grid of 64 seats.
C6_EveryShowSeated ==
    \A sid \in ShowIds(dbShows) : FullGrid(dbSeats, sid)

\* C7: when the seat insert fails after the show insert succeeded, the
\* 'Show created but seats failed' error is what is reported (not the success
\* toast, not what a failed show insert reports), the form is not reset, no
\* fetchShows is issued, the shows list is as it was, and saving is cleared.
C7_SeatFailureOutcome ==
    [][(/\ addShow.pc = "await_seats"
        /\ addShow'.pc = "idle"
        /\ dbSeats' = dbSeats)
           => /\ toast'[FormSession] \in
                    {ErrorToast("Show created but seats failed: " \o m) : m \in StoreErrors}
              /\ toast'[FormSession] # ScheduledToast
              /\ toast'[FormSession] \notin
                    {ErrorToast(m) : m \in StoreErrors \cup {"Failed to create show"}}
              /\ showForm' = showForm
              /\ showFetches' = showFetches
              /\ shows' = shows
              /\ savingShow /\ ~savingShow']_vars

\* C7 witness: the seat insert has failed; the show is in the store without
\* seats, the error is on screen and the form still holds what was submitted.
C7_Witness ==
    /\ addShow.pc = "idle"
    /\ toast[FormSession] = ErrorToast("Show created but seats failed: insert failed")
    /\ ~savingShow
    /\ showForm.movie_id # "" /\ showForm.screen # "" /\ showForm.show_time # ""
    /\ \E sid \in ShowIds(dbShows) : SeatsOf(dbSeats, sid) = {}

----------------------------------------------------------------------------
(* Properties of change propagation and of the pages (SpecSync, SpecLive) *)

Shows(list, id) == \E k \in DOMAIN list : list[k].id = id

ShowsStatus(list, id, s) == \E k \in DOMAIN list : list[k].id = id /\ list[k].status = s

\* The status the store holds for an order ("" while it is not booked).
StoredStatus(id) == IF id \in DOMAIN dbOrders THEN dbOrders[id].status ELSE ""

\* C11: every order in the store comes to be listed by the mounted dashboard
\* and by its owner's mounted MyOrders view, and every status the store
\* holds for an order comes to be shown by both (or is replaced in the store
\* first), with no page remounted.
C11_CommitsReachViews ==
    /\ \A id \in OrderIds : \A a \in SyncAdmins :
          (id \in DOMAIN dbOrders) ~> Shows(orders[a], id)
    /\ \A id \in OrderIds :
          (id \in DOMAIN dbOrders /\ OwnerOf(id) = auth[MyView].user)
              ~> Shows(myOrders, id)
    /\ \A id \in OrderIds : \A s \in Statuses : \A a \in SyncAdmins :
          (StoredStatus(id) = s)
              ~> (ShowsStatus(orders[a], id, s) \/ StoredStatus(id) # s)
    /\ \A id \in OrderIds : \A s \in Statuses :
          (StoredStatus(id) = s /\ Shows(myOrders, id))
              ~> (ShowsStatus(myOrders, id, s) \/ StoredStatus(id) # s)

\* C12: within one order a view displays statuses in commit order: whenever
\* a dashboard's list holds the status of a committed update of an order, no
\* later update's status has been held by that list before (a later update
\* that wrote the same status apart: the display cannot tell the two).
C12_ObservedInCommitOrder ==
    \A a \in SyncAdmins, id \in OrderIds :
        hist.cur[a][id] >= 0 =>
            \/ hist.cur[a][id] = hist.high[a][id]
            \/ hist.st[id][hist.cur[a][id] + 1] = hist.st[id][hist.high[a][id] + 1]

C14_ChannelScoped ==
    /\ \A a \in SyncAdmins :
          /\ chans[a] = (IF mounted[a] THEN 1 ELSE 0)
          /\ ~mounted[a] => notif[a] = 0
    /\ chans[MyView] = (IF mounted[MyView] /\ auth[MyView].user # NoUser THEN 1 ELSE 0)
    /\ chans[MyView] = 0 => myNotif = 0

\* C14 witness: the dashboard has been closed after an update was made from
\* it, and MyOrders, still mounted, has lost its user while a fetchOrders of
\* the previous user is in flight; neither has a channel.
C14_Witness ==
    /\ \E id \in DOMAIN dbOrders : dbOrders[id].status # "Confirmed"
    /\ \A a \in SyncAdmins : ~mounted[a] /\ chans[a] = 0
    /\ mounted[MyView]
    /\ ~auth[MyView].loading /\ auth[MyView].user = NoUser
    /\ myFetches # <<>>
    /\ chans[MyView] = 0

\* C15: every order the MyOrders view holds belongs to the user now signed
\* in, in every state, and while no user is signed in the view has no
\* channel open and issues no query.
C15_OwnOrdersOnly ==
    /\ \A k \in DOMAIN myOrders : myOrders[k].user_id = auth[MyView].user
    /\ auth[MyView].user = NoUser => chans[MyView] = 0

\* C16: a dashboard has an orders query in flight, a channel open, or status
\* buttons on screen or an updateStatus call in flight only while its auth
\* context has finished loading and says isAdmin.
C16_AdminOnly ==
    \A a \in SyncAdmins :
        (\/ fetches[a] # <<>>
         \/ chans[a] > 0
         \/ ActionRows(a) # {}
         \/ pending[a] # <<>>)
            => (~auth[a].loading /\ auth[a].isAdmin)

----------------------------------------------------------------------------
(* Properties of the derived lists (checked under SpecViews) *)

\* The sum of total_amount over the rows of list at the positions in S.
RECURSIVE SumAt(_, _)
SumAt(list, S) ==
    IF S = {} THEN 0
    ELSE LET k == CHOOSE x \in S : TRUE
         IN  list[k].total_amount + SumAt(list, S \ {k})

\* C17: in every state (so after every fetch, local status change and
\* filter change) the revenue shown is the sum of total_amount over the
\* orders of the dashboard's list that are not Collected and, with a show
\* selected, are of that show; the Active / History toggle plays no part.
C17_Revenue ==
    \A a \in SyncAdmins :
        totalRevenue(a) =
            SumAt(orders[a],
                  {k \in DOMAIN orders[a] :
                      /\ orders[a][k].status # "Collected"
                      /\ filterShow[a] = "all" \/ orders[a][k].show_id = filterShow[a]})

\* C17 witness: a show is selected and the History view is on; of the
\* show's two orders in the list one is Collected and one is not (set so by
\* a local status change), and the revenue is the second one's amount.
C17_Witness ==
    \E a \in SyncAdmins :
        /\ filterShow[a] = "s1"
        /\ ordersView[a] = "history"
        /\ pending[a] = <<>>
        /\ Len(orders[a]) = 2
        /\ orders[a][1].show_id = "s1" /\ orders[a][1].status = "Collected"
        /\ orders[a][2].show_id = "s1" /\ orders[a][2].status = "Preparing"
        /\ dbOrders[orders[a][2].id].status # "Preparing"
        /\ totalRevenue(a) = orders[a][2].total_amount

\* The number of positions of list that hold row r.
Occ(list, r) == Cardinality({k \in DOMAIN list : list[k] = r})

\* act and hst split whole by status = Collected: every row of whole is in
\* exactly one of them, as often as in whole, and they hold nothing else.
Partitions(whole, act, hst) ==
    /\ Len(act) + Len(hst) = Len(whole)
    /\ \A k \in DOMAIN whole :
          /\ Occ(act, whole[k]) + Occ(hst, whole[k]) = Occ(whole, whole[k])
          /\ whole[k].status = "Collected" => Occ(act, whole[k]) = 0
          /\ whole[k].status # "Collected" => Occ(hst, whole[k]) = 0

\* C18: the Active and History lists partition the orders by status =
\* Collected: in MyOrders the fetched orders, in the dashboard the orders
\* left by the show filter; what is on screen is one of the two lists.
C18_ActiveHistoryPartition ==
    /\ Partitions(myOrders, active, history)
    /\ shown \in {active, history}
    /\ \A a \in SyncAdmins :
          /\ Partitions(byShow(a), activeOrders(a), historyOrders(a))
          /\ filtered(a) \in {activeOrders(a), historyOrders(a)}
          /\ \A k \in DOMAIN orders[a] :
                Occ(byShow(a), orders[a][k]) =
                    (IF filterShow[a] \in {"all", orders[a][k].show_id} THEN 1 ELSE 0)

\* C18 witness: MyOrders shows its History tab with an order in each list;
\* the dashboard has a show selected, one of whose orders is in each list
\* while an order of another show is in neither.
C18_Witness ==
    /\ tab = "history" /\ active # <<>> /\ history # <<>>
    /\ \E a \in SyncAdmins :
          /\ filterShow[a] # "all"
          /\ Len(byShow(a)) < Len(orders[a])
          /\ historyOrders(a) # <<>>

\* A list in which, of any two orders, the one created later comes first.
NewestFirst(list) ==
    \A i, j \in DOMAIN list : i < j => list[i].created_at > list[j].created_at

\* C21: the list each view holds is ordered by creation time descending,
\* and so is every list derived from it for display (the show filter, the
\* Active / History lists), also after updateStatus has written a status
\* into the list: of any two displayed orders, the one created later is
\* listed first.
C21_NewestFirst ==
    /\ NewestFirst(myOrders) /\ NewestFirst(active) /\ NewestFirst(history)
    /\ NewestFirst(shown)
    /\ \A a \in SyncAdmins :
          /\ NewestFirst(orders[a]) /\ NewestFirst(byShow(a))
          /\ NewestFirst(activeOrders(a)) /\ NewestFirst(historyOrders(a))
          /\ NewestFirst(filtered(a))

\* C21 witness: MyOrders lists two orders; the dashboard, a show selected,
\* displays two orders of that show, one of them with a status that
\* updateStatus wrote into the list (the store holds another).
C21_Witness ==
    /\ Len(myOrders) = 2 /\ Len(shown) = 2
    /\ \E a \in SyncAdmins :
          /\ filterShow[a] # "all"
          /\ Len(filtered(a)) = 2
          /\ \E k \in DOMAIN filtered(a) :
                filtered(a)[k].status # dbOrders[filtered(a)[k].id].status

----------------------------------------------------------------------------
(* Properties of the forms (checked under SpecForms) *)

\* The price texts that denote a number greater than zero.
PositivePrices == {"150"}

FormError == toast'[FormSession].kind = "error"

\* C19: a submission that fails validation has no side effect: with a movie
\* form lacking title or duration, a show form lacking movie, screen or show
\* time, or a snack form lacking name or price or with a price that is not
\* a number greater than zero, the handler sends no insert, leaves the
\* store, the form, the saving flag and the list as they were, and reports
\* an error.
C19_ValidationBlocks ==
    [][/\ (HandleAddMovie /\ (movieForm.title = "" \/ movieForm.duration = ""))
             => (FormError /\ UNCHANGED <<movieVars, dbShows, dbSeats, dbSnacks>>)
       /\ ((AddShowInvalid \/ AddShowSubmit)
           /\ (showForm.movie_id = "" \/ showForm.screen = "" \/ showForm.show_time = ""))
             => (FormError /\ UNCHANGED <<showVars, dbMovies, dbSnacks>>)
       /\ (HandleSubmit
           /\ (form.name = "" \/ form.price = "" \/ form.price \notin PositivePrices))
             => (FormError /\ UNCHANGED <<snackVars, dbMovies, dbShows, dbSeats>>)]_vars

\* C19 witness: the snack form, holding a name and the price 0, has been
\* submitted and refused: the error is on screen, the form is as it was,
\* nothing is being saved and the store has no snack.
C19_Witness ==
    /\ activeTab[FormSession] = "snacks"
    /\ toast[FormSession] = ErrorToast("Enter a valid price")
    /\ form.name = "Popcorn" /\ form.price = "0"
    /\ ~saving /\ addSnack.pc = "idle"
    /\ dbSnacks = <<>> /\ snackFetches = <<>>

----------------------------------------------------------------------------
(* Properties of the order history (checked under SpecHistory) *)

\* C20: when an admin deletes a show, all its seats are removed from the
\* store, and every fetch of MyOrders keeps the orders the list held and
\* leaves each listed order displaying the seat labels and the snack items
\* it was booked with.
C20_HistoryKeepsSeatsAndSnacks ==
    [][/\ \A id \in ShowKeys :
             (DeleteShowKeepRows(id) \/ DeleteShowCascadeRows(id))
                => SeatsOf(dbSeats', id) = {}
       /\ \A i \in 1..MaxMyFetch :
             MyFetchReturn(i) =>
                /\ \A k \in DOMAIN myOrders : Shows(myOrders', myOrders[k].id)
                /\ \A k \in DOMAIN myOrders' :
                      /\ seatNums(myOrders'[k]) = BookedSeats(myOrders'[k].id)
                      /\ snackItems(myOrders'[k]) = <<"Popcorn x2">>]_vars

----------------------------------------------------------------------------
(* Properties of convergence (checked under SpecConverge) *)

\* Dashboard a has no call in flight and no realtime event queued.
Idle(a) == pending[a] = <<>> /\ fetches[a] = <<>> /\ notif[a] = 0

\* Dashboard a shows every order of the store with its stored status.
InSync(a) ==
    /\ ~loading[a]
    /\ \A id \in DOMAIN dbOrders : ShowsStatus(orders[a], id, dbOrders[id].status)

\* C22: under fair delivery of the responses and the realtime events, a
\* dashboard that from some point on has no call in flight and no event
\* queued (so that no update is issued any more and the store has stopped
\* changing) shows, from some point on, every order with its stored status.
C22_DashboardConverges ==
    \A a \in SyncAdmins : (<>[]Idle(a)) => (<>[]InSync(a))

----------------------------------------------------------------------------
(* Properties of the ticket modal (checked under SpecTicket) *)

\* C23: whenever the ticket modal is open, the order it displays is in the
\* view's current list with a status other than Collected, and the status
\* the modal shows is the status that order has in the list.
C23_TicketShowsActiveOrder ==
    qrOrder # Null =>
        \E k \in DOMAIN myOrders :
            /\ myOrders[k].id = qrOrder.order.id
            /\ myOrders[k].status # "Collected"
            /\ qrOrder.order.status = myOrders[k].status

====
